---- MODULE Spec2Model ----
(***************************************************************************)
(* Model of src/ad_lldb.py: the LLDB summary formatters of ad.              *)
(*                                                                         *)
(* The debuggee memory snapshot (mem) is fixed at Init; the host loads the  *)
(* module once (lldb_init_module) and then dispatches summary requests to   *)
(* the registered formatters.  show_sname_scope_t is one step, show_sname_t *)
(* is an entry step, one step per loop iteration and a return step.         *)
(* Strings are sequences of one-character strings.                          *)
(***************************************************************************)
EXTENDS Naturals, Sequences, FiniteSets

VARIABLES
    mem,        \* the debuggee memory snapshot: the list nodes and the last node's next
    cmds,       \* the commands handed to debugger.HandleCommand, in order
    pc,         \* "idle" | "loop" (inside show_sname_t's for) | "done" (call ended)
    fmt,        \* the formatter of the current / last call
    arg,        \* the value it was called on: 0 = the sname_t, i = the i-th scope value
    cur,        \* show_sname_t: the node the iterator is at (0 = NULL)
    colon2,     \* show_sname_t: local colon2
    rv,         \* local rv
    visited,    \* show_sname_t: the nodes yielded by the iterator, in order
    probes,     \* the is_null calls made by the last step
    outcome,    \* how the last call ended: a returned string or a raised exception
    prev        \* a remembered earlier call: its formatter, value and outcome

vars == <<mem, cmds, pc, fmt, arg, cur, colon2, rv, visited, probes, outcome, prev>>

-----------------------------------------------------------------------------
\* Bounds of the model.

\* The longest list of the snapshot.
MaxNodes == 3

\* How many nodes the iterator may yield before the model stops following a
\* cyclic list (an acyclic list never needs more than MaxNodes).
MaxVisits == MaxNodes + 2

-----------------------------------------------------------------------------
\* Strings.

DQ == "\""

\* The scope names of the snapshot and what the host may report as the
\* summary of a name: the name in one pair of quotes (the host's convention
\* for char*), or in two.
Quote(s) == <<DQ>> \o s \o <<DQ>>

Names == {<<"S">>, <<"T">>}

Text(s) == [none |-> FALSE, text |-> s]

Summaries == {Text(Quote(n)) : n \in Names} \cup {Text(Quote(Quote(<<"S">>)))}

\* SBValue.GetSummary() returns None when the host has no summary.
NoSummary == [none |-> TRUE, text |-> <<>>]

\* Python: s.lstrip('"')
RECURSIVE lstrip(_)
lstrip(s) ==
    IF s # <<>> /\ Head(s) = DQ THEN lstrip(Tail(s)) ELSE s

\* Python: s.rstrip('"')
RECURSIVE rstrip(_)
rstrip(s) ==
    IF s # <<>> /\ s[Len(s)] = DQ THEN rstrip(SubSeq(s, 1, Len(s) - 1)) ELSE s

\* Python: s.strip('"') removes every leading and every trailing '"'.
strip(s) == rstrip(lstrip(s))

-----------------------------------------------------------------------------
\* The host's values (SBValue).

\* A pointer to char: the name member of a named-scope record.
InvalidName == [valid |-> FALSE, addr |-> 0, summary |-> NoSummary]
NullName    == [valid |-> TRUE,  addr |-> 0, summary |-> NoSummary]

NamePtrs ==
    {InvalidName, NullName}
        \cup {[valid |-> TRUE, addr |-> 1, summary |-> s] :
                 s \in Summaries \cup {NoSummary}}

\* The data member: invalid, NULL, or a pointer to a named-scope record.  A
\* member resolved through a pointer that cannot be followed is invalid.
InvalidData == [valid |-> FALSE, addr |-> 0, name |-> InvalidName]
NullData    == [valid |-> TRUE,  addr |-> 0, name |-> InvalidName]

DataPtrs ==
    {InvalidData, NullData}
        \cup {[valid |-> TRUE, addr |-> 1, name |-> n] : n \in NamePtrs}

\* A value with a data member.  The formatters resolve members by name only,
\* so one shape serves as the sname_scope_t handed to show_sname_scope_t and
\* as a node of the sname_t's list.
ScopeValues == [data : DataPtrs]

\* The snapshots: a list of at most MaxNodes nodes whose last node's next is
\* NULL (tail = 0) or points back to the head (tail = 1, a corrupt list).
Snapshots ==
    UNION {[nodes : [1..n -> ScopeValues], tail : IF n = 0 THEN {0} ELSE {0, 1}] :
              n \in 0..MaxNodes}

IsValid(v) == v.valid

\* SBValue.GetValueAsUnsigned(): the fail value 0 for an invalid value.
GetValueAsUnsigned(v) == IF v.valid THEN v.addr ELSE 0

GetChildMemberWithName(v, member) == v[member]

GetSummary(v) == v.summary

\* SBValue.Cast(): the same pointer seen as a pointer to another type.
Cast(v, type) == v

-----------------------------------------------------------------------------
\* The module.

\* The names bound at module level when a formatter runs.
ModuleGlobals ==
    {"lldb", "__lldb_init_module", "is_null", "show_sname_scope_t", "show_sname_t"}

Return(s) == [kind |-> "return", value |-> s]
Raise(e)  == [kind |-> "raise", exc |-> e]
NoOutcome == [kind |-> "none"]
NoCall    == [fmt |-> "none", arg |-> 0, outcome |-> NoOutcome]

\* One command: 'type summary add -F <module>.<function> <type>'.
Command(function, type) ==
    [command |-> "type summary add", F |-> function, type |-> type]

\* A slip in __lldb_init_module: the two type names exchanged.
lldb_init_module_swapped ==
    << Command("show_sname_scope_t", "sname_t"),
       Command("show_sname_t", "sname_scope_t") >>

\* __lldb_init_module: the commands it hands to debugger.HandleCommand.
lldb_init_module ==
    << Command("show_sname_scope_t", "sname_scope_t"),
       Command("show_sname_t", "sname_t") >>

\* The host's table: the function of the last command given for a type.
RECURSIVE SummaryFunction(_, _)
SummaryFunction(cs, type) ==
    IF cs = <<>> THEN "none"
    ELSE IF cs[Len(cs)].type = type THEN cs[Len(cs)].F
    ELSE SummaryFunction(SubSeq(cs, 1, Len(cs) - 1), type)

\* A slip in is_null: `not ptr.IsValid()` alone, the address never compared.
is_null_validity_only(ptr) ==
    [ptr |-> ptr, result |-> ~IsValid(ptr), fetched |-> FALSE]

\* A slip in is_null: the `not` left out.
is_null_no_not(ptr) ==
    IF IsValid(ptr)
    THEN [ptr |-> ptr, result |-> TRUE, fetched |-> FALSE]
    ELSE [ptr |-> ptr, result |-> GetValueAsUnsigned(ptr) = 0, fetched |-> TRUE]

\* is_null: `not ptr.IsValid() or ptr.GetValueAsUnsigned() == 0`; `or` fetches
\* the address only when the value is valid.
is_null(ptr) ==
    IF ~IsValid(ptr)
    THEN [ptr |-> ptr, result |-> TRUE, fetched |-> FALSE]
    ELSE [ptr |-> ptr, result |-> GetValueAsUnsigned(ptr) = 0, fetched |-> TRUE]

\* A slip: rv not reset, so a call starts from what the last call left.
InitialRv_leftover == rv

\* The value of rv after `rv = ""`.
InitialRv == <<>>

\* name_ptr.GetSummary().strip('"'): None has no strip.
StripSummary(name_ptr) ==
    IF GetSummary(name_ptr).none
    THEN Raise("AttributeError")
    ELSE Return(strip(GetSummary(name_ptr).text))

\* A slip: the iterator yields the same node again.
NextNode_stay(i) == i

\* The iterator's next item: the node's next member.
NextNode(i) ==
    IF i < Len(mem.nodes) THEN i + 1 ELSE mem.tail

Head0 == IF mem.nodes = <<>> THEN 0 ELSE 1

-----------------------------------------------------------------------------
Init ==
    /\ mem \in Snapshots
    /\ cmds = <<>>
    /\ pc = "idle"
    /\ fmt = "none"
    /\ arg = 0
    /\ cur = 0
    /\ colon2 = FALSE
    /\ rv = <<>>
    /\ visited = <<>>
    /\ probes = <<>>
    /\ outcome = NoOutcome
    /\ prev = NoCall

\* The host loads the module.
Load ==
    /\ cmds = <<>>
    /\ pc = "idle"
    /\ cmds' = cmds \o lldb_init_module
    /\ UNCHANGED <<mem, pc, fmt, arg, cur, colon2, rv, visited, probes, outcome, prev>>

\* The host has the previous call's outcome (if any) and may keep it.
Remember(keep) ==
    prev' = IF keep /\ pc = "done"
            THEN [fmt |-> fmt, arg |-> arg, outcome |-> outcome]
            ELSE prev

\* show_sname_scope_t(sname_scope), the whole call.
show_sname_scope_t(i, keep) ==
    /\ pc \in {"idle", "done"}
    /\ SummaryFunction(cmds, "sname_scope_t") = "show_sname_scope_t"
    /\ i \in 1..Len(mem.nodes)
    /\ Remember(keep)
    /\ LET sname_scope   == mem.nodes[i]
           void_data_ptr == GetChildMemberWithName(sname_scope, "data")
           p1            == is_null(void_data_ptr)
           name_ptr      == GetChildMemberWithName(
                                Cast(void_data_ptr, "sname_scope_ptr_t"), "name")
           p2            == is_null(name_ptr)
           stripped      == StripSummary(name_ptr)
       IN  /\ probes' = IF p1.result THEN <<p1>> ELSE <<p1, p2>>
           /\ IF ~p1.result /\ ~p2.result
              THEN IF stripped.kind = "raise"
                   THEN /\ rv' = InitialRv
                        /\ outcome' = stripped
                   ELSE /\ rv' = stripped.value
                        /\ outcome' = Return(<<DQ>> \o stripped.value \o <<DQ>>)
              ELSE /\ rv' = InitialRv
                   /\ outcome' = Return(<<DQ>> \o InitialRv \o <<DQ>>)
    /\ fmt' = "show_sname_scope_t"
    /\ arg' = i
    /\ pc' = "done"
    /\ UNCHANGED <<mem, cmds, cur, colon2, visited>>

\* show_sname_t(sname), up to the for statement.
show_sname_t(keep) ==
    /\ pc \in {"idle", "done"}
    /\ SummaryFunction(cmds, "sname_t") = "show_sname_t"
    /\ Remember(keep)
    /\ fmt' = "show_sname_t"
    /\ arg' = 0
    /\ colon2' = FALSE
    /\ rv' = InitialRv
    /\ cur' = Head0
    /\ visited' = <<>>
    /\ probes' = <<>>
    /\ outcome' = NoOutcome
    /\ pc' = "loop"
    /\ UNCHANGED <<mem, cmds>>

\* One iteration of `for slist_node_ptr in head.linked_list_iter('next')`.
LoopBody ==
    /\ pc = "loop"
    /\ cur # 0
    /\ Len(visited) < MaxVisits
    /\ visited' = Append(visited, cur)
    /\ LET slist_node_ptr == mem.nodes[cur]
           void_data_ptr  == GetChildMemberWithName(slist_node_ptr, "data")
           p1             == is_null(void_data_ptr)
           name_ptr       == GetChildMemberWithName(
                                 Cast(void_data_ptr, "sname_scope_t"), "name")
           p2             == is_null(name_ptr)
           stripped       == StripSummary(name_ptr)
       IN  IF p1.result
           THEN /\ probes' = <<p1>>
                /\ cur' = NextNode(cur)
                /\ UNCHANGED <<pc, colon2, rv, outcome>>
           ELSE IF "sname_scope_t" \notin ModuleGlobals
           THEN \* line 63 names sname_scope_t, which nothing binds
                /\ probes' = <<p1>>
                /\ outcome' = Raise("NameError")
                /\ pc' = "done"
                /\ UNCHANGED <<cur, colon2, rv>>
           ELSE IF p2.result
           THEN /\ probes' = <<p1, p2>>
                /\ cur' = NextNode(cur)
                /\ UNCHANGED <<pc, colon2, rv, outcome>>
           ELSE IF stripped.kind = "raise"
           THEN /\ probes' = <<p1, p2>>
                /\ colon2' = TRUE
                /\ rv' = IF colon2 THEN rv \o <<":", ":">> ELSE rv
                /\ outcome' = stripped
                /\ pc' = "done"
                /\ UNCHANGED cur
           ELSE /\ probes' = <<p1, p2>>
                /\ colon2' = TRUE
                /\ rv' = (IF colon2 THEN rv \o <<":", ":">> ELSE rv) \o stripped.value
                /\ cur' = NextNode(cur)
                /\ UNCHANGED <<pc, outcome>>
    /\ UNCHANGED <<mem, cmds, fmt, arg, prev>>

\* The iterator is exhausted: `return '"' + rv + '"'`.
LoopExit ==
    /\ pc = "loop"
    /\ cur = 0
    /\ outcome' = Return(<<DQ>> \o rv \o <<DQ>>)
    /\ probes' = <<>>
    /\ pc' = "done"
    /\ UNCHANGED <<mem, cmds, fmt, arg, cur, colon2, rv, visited, prev>>

Next ==
    \/ Load
    \/ \E i \in 1..MaxNodes, keep \in BOOLEAN : show_sname_scope_t(i, keep)
    \/ \E keep \in BOOLEAN : show_sname_t(keep)
    \/ LoopBody
    \/ LoopExit

Spec == Init /\ [][Next]_vars

\* The interpreter keeps running a call that has started.
FairSpec == Spec /\ WF_vars(LoopBody) /\ WF_vars(LoopExit)

-----------------------------------------------------------------------------
\* What the specification says, in the terms of the snapshot.

\* The list ends at a NULL next.
Acyclic == mem.tail = 0

\* A pointer the specification calls null: invalid, or address zero.
SpecNull(p) == ~p.valid \/ p.addr = 0

\* A qualifying node: data non-null and name non-null.
Qualifying(v) == ~SpecNull(v.data) /\ ~SpecNull(v.data.name)

QualifyingNodes == {i \in 1..Len(mem.nodes) : Qualifying(mem.nodes[i])}

\* The host has a summary for every non-null name of the snapshot.
EveryNameSummarised ==
    \A i \in QualifyingNodes : ~mem.nodes[i].data.name.summary.none

\* One layer of surrounding quotes removed.
StripOneLayer(s) ==
    LET front == IF s # <<>> /\ Head(s) = DQ THEN Tail(s) ELSE s
    IN  IF front # <<>> /\ front[Len(front)] = DQ
        THEN SubSeq(front, 1, Len(front) - 1)
        ELSE front

\* The quote-stripped names of the qualifying nodes among the first n nodes,
\* joined by '::' in list order.
RECURSIVE Joined(_)
Joined(n) ==
    IF n = 0 THEN <<>>
    ELSE IF ~Qualifying(mem.nodes[n]) THEN Joined(n - 1)
    ELSE LET name == strip(mem.nodes[n].data.name.summary.text)
             sep  == IF \E i \in QualifyingNodes : i < n THEN <<":", ":">> ELSE <<>>
         IN  Joined(n - 1) \o sep \o name

\* The number of ':' characters of a string.
Colons(s) == Cardinality({k \in 1..Len(s) : s[k] = ":"})

NameCallDone == pc = "done" /\ fmt = "show_sname_t"

ScopeCallDone == pc = "done" /\ fmt = "show_sname_scope_t"

-----------------------------------------------------------------------------
\* C1: show_sname_t on a finite acyclic list returns a double quote, the
\* quote-stripped names of the qualifying nodes joined by '::' in list order,
\* and a double quote.
C1_NameJoinsQualifying ==
    (NameCallDone /\ Acyclic /\ EveryNameSummarised)
        => outcome = Return(Quote(Joined(Len(mem.nodes))))

\* C2: every call of either formatter ends by returning one string of the
\* form double quote, body, double quote; none ends in an exception.
C2_NoFault ==
    (pc = "done" /\ EveryNameSummarised)
        => /\ outcome.kind = "return"
           /\ Len(outcome.value) >= 2
           /\ Head(outcome.value) = DQ
           /\ outcome.value[Len(outcome.value)] = DQ

\* C3: show_sname_t skips a node whose data or name is null without ending
\* the traversal and without a separator: the result is a string with
\* exactly max(0, qualifying nodes - 1) separators '::'.
C3_SkippedNodeNoSeparator ==
    (/\ NameCallDone /\ Acyclic /\ EveryNameSummarised
     /\ QualifyingNodes # {}
     /\ QualifyingNodes # 1..Len(mem.nodes))
        => /\ outcome.kind = "return"
           /\ Colons(outcome.value) = 2 * (Cardinality(QualifyingNodes) - 1)

\* C4: show_sname_scope_t on a scope whose data and name are non-null returns
\* a double quote, the host's summary of the name with exactly one layer of
\* surrounding quotes removed, and a double quote.
C4_ScopeStripsOneLayer ==
    (/\ ScopeCallDone
     /\ Qualifying(mem.nodes[arg])
     /\ ~mem.nodes[arg].data.name.summary.none)
        => outcome =
             Return(Quote(StripOneLayer(mem.nodes[arg].data.name.summary.text)))

\* C5: show_sname_scope_t on a scope whose data is null or invalid, or whose
\* data is valid and whose name is null or invalid, returns exactly "".
C5_ScopeNullIsEmpty ==
    (ScopeCallDone /\ ~Qualifying(mem.nodes[arg]))
        => outcome = Return(<<DQ, DQ>>)

C5_Witness ==
    /\ ScopeCallDone
    /\ mem.nodes[arg].data.valid /\ mem.nodes[arg].data.addr # 0
    /\ mem.nodes[arg].data.name = NullName
    /\ outcome = Return(<<DQ, DQ>>)

\* C6: show_sname_t on a list with no qualifying node (an empty list
\* included) returns exactly "".
C6_NoQualifyingIsEmpty ==
    (NameCallDone /\ Acyclic /\ QualifyingNodes = {})
        => outcome = Return(<<DQ, DQ>>)

\* C7: a formatter called again on the same value of the unchanged snapshot,
\* whatever calls came in between, ends with the same outcome as before.
C7_Idempotent ==
    (pc = "done" /\ prev.fmt = fmt /\ prev.arg = arg)
        => outcome = prev.outcome

C7_Witness ==
    /\ ScopeCallDone
    /\ prev.fmt = fmt /\ prev.arg = arg
    /\ rv # <<>>
    /\ outcome = Return(Quote(rv))
    /\ \E i \in 1..Len(mem.nodes) : ~Qualifying(mem.nodes[i])

\* C8: loading the module issues exactly two registrations, sname_scope_t to
\* show_sname_scope_t and sname_t to show_sname_t, and nothing else.
C8_TwoRegistrations ==
    cmds # <<>>
        => /\ Len(cmds) = 2
           /\ \A k \in 1..Len(cmds) : cmds[k].command = "type summary add"
           /\ {<<cmds[k].type, cmds[k].F>> : k \in 1..Len(cmds)}
                = {<<"sname_scope_t", "show_sname_scope_t">>,
                   <<"sname_t", "show_sname_t">>}

C8_Witness ==
    /\ cmds # <<>>
    /\ SummaryFunction(cmds, "sname_scope_t") = "show_sname_scope_t"
    /\ SummaryFunction(cmds, "sname_t") = "show_sname_t"
    /\ pc = "done"

\* C9: is_null answers true exactly when the value is invalid or its address
\* is zero, and never fetches the address of an invalid value.
C9_IsNull ==
    \A k \in 1..Len(probes) :
        /\ probes[k].result = SpecNull(probes[k].ptr)
        /\ probes[k].fetched => probes[k].ptr.valid

C9_Witness ==
    /\ Len(probes) = 2
    /\ ~probes[1].result /\ probes[1].fetched
    /\ ~probes[2].ptr.valid /\ probes[2].result /\ ~probes[2].fetched

\* C10: on a finite acyclic list show_sname_t visits the nodes in list order
\* from the head, each at most once, and the call ends.
VisitedInListOrder ==
    /\ Len(visited) <= Len(mem.nodes)
    /\ \A k \in 1..Len(visited) : visited[k] = k

C10_Terminates ==
    /\ []((fmt = "show_sname_t" /\ Acyclic) => VisitedInListOrder)
    /\ (pc = "loop" /\ Acyclic) ~> (pc = "done")

C10_Witness ==
    /\ NameCallDone /\ Acyclic
    /\ Len(mem.nodes) = MaxNodes
    /\ Len(visited) = MaxNodes
    /\ outcome = Return(<<DQ, DQ>>)

====
